---- MODULE Spec2Model ----
(***************************************************************************)
(* Model of the BSBI search engine back end: the postings codec            *)
(* (compression.py) and the indexing / merge / retrieval operations of     *)
(* BSBIIndex (bsbi.py).                                                    *)
(***************************************************************************)
EXTENDS Integers, Sequences, FiniteSets, TLC

(***************************************************************************)
(* Bounds of the model.                                                    *)
(***************************************************************************)
MaxLen == 3         \* longest list handed to the codec

\* width in bytes of one array("L") item (compression.py: "representasi 4 byte unsigned")
ItemSize == 4

\* term frequencies: one base-128 digit (< 128) and two digits (>= 128)
TfVals == {0, 1, 127, 128, 300}
\* document ids: one, two and three base-128 digits, small and large gaps
DocIdVals == {0, 1, 127, 128, 300, 16384, 20000}

MaxReaders == 2     \* most intermediate indices handed to merge_index
MaxDocId == 2       \* document ids of the merge and inversion inputs are 0..MaxDocId
MaxPairs == 4       \* longest td_pairs sequence handed to write_to_index
MaxBlocks == 2      \* most blocks (sub-directories) of a collection
MaxDocs == 2        \* most documents of a collection, all blocks together
MaxTokens == 3      \* most terms of a collection after normalization, all documents together
MaxQueryLen == 2    \* most terms of a query after normalization
MaxK == 2           \* largest k handed to a retrieval function

\* term ids of the merge and inversion inputs
TermIds == {0, 1}
DocIds == 0..MaxDocId

VARIABLES
    pc,             \* position of the running operation
    codec,          \* postings_encoding: "StandardPostings" or "VBEPostings"
    kind,           \* which pair of codec functions is exercised: "postings" or "tf"
    input_list,     \* the list handed to encode / encode_tf
    encoded,        \* the byte string returned by encode / encode_tf
    decoded,        \* the list returned by decode / decode_tf
    td_pairs,       \* write_to_index: the <<termId, docId>> pairs not yet aggregated
    term_dict,      \* write_to_index: termId -> (docId -> tf)
    indices,        \* merge_index: per reader, the triples its iteration yields
    merged_iter,    \* merge_index: per reader, how many triples heapq.merge has pulled
    curr,           \* merge_index: termId of the accumulator
    postings,       \* merge_index: postings of the accumulator
    tf_list,        \* merge_index: tf list of the accumulator
    appends,        \* the calls <<termId, postings, tf_list>> made to the open writer's append
    collection,     \* data_dir: per block (in name order), per file, the normalized terms
    listing,        \* data_dir: the block names in the order os.walk lists them
    opened,         \* the index files held open: <<"writer", id>> and <<"reader", id>>
    term_id_map,    \* IdMap of the terms: the keys in id order
    doc_id_map,     \* IdMap of the document paths: the keys in id order
    intermediate_indices,   \* ids of the intermediate indices written so far
    files,          \* output_dir: index id -> the index stored under that id
    saved,          \* output_dir: the pickled <<term_id_map, doc_id_map>>, if any
    query,          \* retrieval: the terms of the query after pre_processing_text
    top_k,          \* retrieval: the parameter k
    scorer,         \* retrieval: "tfidf" or "bm25"
    bm25_params,    \* retrieval: <<k1, b>> of retrieve_bm25, in tenths and hundredths
    result,         \* retrieval: the list of <<score, document path>> returned
    raised          \* the exception the last operation ended with, or "none"

codecVars == <<codec, kind, input_list, encoded, decoded>>
invertVars == <<td_pairs, term_dict>>
mergeVars == <<indices, merged_iter, curr, postings, tf_list>>
indexVars == <<collection, listing, opened, term_id_map, doc_id_map, intermediate_indices,
               files, saved>>
retrVars == <<query, top_k, scorer, bm25_params, result, raised>>
vars == <<pc, codecVars, invertVars, mergeVars, appends, indexVars, retrVars>>

(***************************************************************************)
(* Generic helpers.                                                        *)
(***************************************************************************)
SeqsUpTo(S, n) == UNION {[1..m -> S] : m \in 0..n}

NonEmptySeqs(S, n) == SeqsUpTo(S, n) \ {<<>>}

IsAscending(s) == \A i \in 1..(Len(s) - 1) : s[i] <= s[i + 1]

IsStrictlyAscending(s) == \A i \in 1..(Len(s) - 1) : s[i] < s[i + 1]

RECURSIVE Flatten(_)
Flatten(ss) == IF ss = <<>> THEN <<>> ELSE Head(ss) \o Flatten(Tail(ss))

(***************************************************************************)
(* array.array("L"): tobytes / frombytes (native little-endian words).     *)
(***************************************************************************)
RECURSIVE Pow(_, _)
Pow(b, e) == IF e = 0 THEN 1 ELSE b * Pow(b, e - 1)

\* the ItemSize bytes of one unsigned word, least significant first
WordToBytes(n) == [i \in 1..ItemSize |-> (n \div Pow(256, i - 1)) % 256]

\* array.array("L", numbers).tobytes()
array_tobytes(numbers) == Flatten([i \in 1..Len(numbers) |-> WordToBytes(numbers[i])])

RECURSIVE BytesToWord(_)
BytesToWord(bs) == IF bs = <<>> THEN 0 ELSE Head(bs) + 256 * BytesToWord(Tail(bs))

\* array.array("L").frombytes(bytes).tolist(); the length is a multiple of ItemSize
array_frombytes(bytes) ==
    [i \in 1..(Len(bytes) \div ItemSize) |->
        BytesToWord(SubSeq(bytes, (i - 1) * ItemSize + 1, i * ItemSize))]

(***************************************************************************)
(* StandardPostings                                                        *)
(***************************************************************************)
StandardPostings_encode(postings_list) == array_tobytes(postings_list)

StandardPostings_decode(encoded_postings_list) == array_frombytes(encoded_postings_list)

StandardPostings_encode_tf(tfs) == StandardPostings_encode(tfs)

StandardPostings_decode_tf(encoded_tf_list) == StandardPostings_decode(encoded_tf_list)

(***************************************************************************)
(* VBEPostings                                                             *)
(***************************************************************************)
\* the base-128 digits of number, most significant first
RECURSIVE vb_digits(_)
vb_digits(number) ==
    IF number < 128 THEN <<number % 128>>
    ELSE Append(vb_digits(number \div 128), number % 128)

vb_encode_number(number) ==
    LET bytes == vb_digits(number)
    IN  [bytes EXCEPT ![Len(bytes)] = @ + 128]

vb_encode(list_of_numbers) ==
    array_tobytes(Flatten([i \in 1..Len(list_of_numbers) |->
                               vb_encode_number(list_of_numbers[i])]))

\* np.diff(s).tolist()
np_diff(s) == [i \in 1..(Len(s) - 1) |-> s[i + 1] - s[i]]

\* np.cumsum(s).tolist()
RECURSIVE np_cumsum(_)
np_cumsum(s) ==
    IF s = <<>> THEN <<>>
    ELSE LET front == np_cumsum(SubSeq(s, 1, Len(s) - 1))
         IN  Append(front, (IF front = <<>> THEN 0 ELSE front[Len(front)]) + s[Len(s)])

VBEPostings_encode(postings_list) == vb_encode(np_diff(<<0>> \o postings_list))

VBEPostings_encode_tf(tfs) == vb_encode(tfs)

\* the loop of vb_decode: state is <<numbers, n>>
RECURSIVE vb_decode_loop(_, _, _)
vb_decode_loop(stream, numbers, n) ==
    IF stream = <<>> THEN numbers
    ELSE LET byte == Head(stream)
         IN  IF byte < 128
             THEN vb_decode_loop(Tail(stream), numbers, 128 * n + byte)
             ELSE vb_decode_loop(Tail(stream), Append(numbers, 128 * n + byte - 128), 0)

vb_decode(encoded_bytestream) == vb_decode_loop(encoded_bytestream, <<>>, 0)

\* decode that forgets the prefix sum: returns the gaps
VBEPostings_decode_NoCumsum(encoded_postings_list) ==
    vb_decode(array_frombytes(encoded_postings_list))

VBEPostings_decode(encoded_postings_list) ==
    np_cumsum(vb_decode(array_frombytes(encoded_postings_list)))

\* decode_tf hands the raw bytes to vb_decode, without array.frombytes
VBEPostings_decode_tf(encoded_tf_list) == vb_decode(encoded_tf_list)

(***************************************************************************)
(* Dispatch on postings_encoding.                                          *)
(***************************************************************************)
Codecs == {"StandardPostings", "VBEPostings"}

encode(c, l) == IF c = "VBEPostings" THEN VBEPostings_encode(l) ELSE StandardPostings_encode(l)

decode(c, b) == IF c = "VBEPostings" THEN VBEPostings_decode(b) ELSE StandardPostings_decode(b)

encode_tf(c, l) ==
    IF c = "VBEPostings" THEN VBEPostings_encode_tf(l) ELSE StandardPostings_encode_tf(l)

decode_tf(c, b) ==
    IF c = "VBEPostings" THEN VBEPostings_decode_tf(b) ELSE StandardPostings_decode_tf(b)

(***************************************************************************)
(* Values of the variables an operation does not use.                      *)
(***************************************************************************)
EmptyMap == [x \in {} |-> 0]

CodecIdle ==
    /\ codec = "VBEPostings" /\ kind = "postings"
    /\ input_list = <<>> /\ encoded = <<>> /\ decoded = <<>>

InvertIdle == td_pairs = <<>> /\ term_dict = EmptyMap

MergeIdle ==
    /\ indices = <<>> /\ merged_iter = <<>>
    /\ curr = -1 /\ postings = <<>> /\ tf_list = <<>>

IndexIdle ==
    /\ collection = <<>> /\ listing = <<>> /\ opened = {}
    /\ term_id_map = <<>> /\ doc_id_map = <<>>
    /\ intermediate_indices = <<>> /\ files = EmptyMap /\ saved = <<>>

\* k1=1.2, b=0.75, the defaults of retrieve_bm25
DefaultParams == <<12, 75>>

RetrIdle ==
    /\ query = <<>> /\ top_k = 0 /\ scorer = "tfidf" /\ bm25_params = DefaultParams
    /\ result = <<>> /\ raised = "none"

(***************************************************************************)
(* Codec specification: the round trip of compression.py's __main__.       *)
(***************************************************************************)
InitCodec ==
    /\ pc = "start"
    /\ codec \in Codecs
    /\ kind \in {"postings", "tf"}
    /\ input_list \in IF kind = "tf"
                      THEN NonEmptySeqs(TfVals, MaxLen)
                      ELSE {l \in NonEmptySeqs(DocIdVals, MaxLen) : IsAscending(l)}
    /\ encoded = <<>>
    /\ decoded = <<>>
    /\ InvertIdle /\ MergeIdle /\ appends = <<>> /\ IndexIdle /\ RetrIdle

EncodePostings ==
    /\ pc = "start" /\ kind = "postings"
    /\ encoded' = encode(codec, input_list)
    /\ pc' = "encoded"
    /\ UNCHANGED <<codec, kind, input_list, decoded, invertVars, mergeVars, appends, indexVars, retrVars>>

EncodeTf ==
    /\ pc = "start" /\ kind = "tf"
    /\ encoded' = encode_tf(codec, input_list)
    /\ pc' = "encoded"
    /\ UNCHANGED <<codec, kind, input_list, decoded, invertVars, mergeVars, appends, indexVars, retrVars>>

DecodePostings ==
    /\ pc = "encoded" /\ kind = "postings"
    /\ decoded' = decode(codec, encoded)
    /\ pc' = "decoded"
    /\ UNCHANGED <<codec, kind, input_list, encoded, invertVars, mergeVars, appends, indexVars, retrVars>>

DecodeTf ==
    /\ pc = "encoded" /\ kind = "tf"
    /\ decoded' = decode_tf(codec, encoded)
    /\ pc' = "decoded"
    /\ UNCHANGED <<codec, kind, input_list, encoded, invertVars, mergeVars, appends, indexVars, retrVars>>

NextCodec == EncodePostings \/ EncodeTf \/ DecodePostings \/ DecodeTf

SpecCodec == InitCodec /\ [][NextCodec]_vars

(***************************************************************************)
(* C1: for both codecs and every non-empty list L of non-negative          *)
(* integers, values >= 128 included, decode_tf(encode_tf(L)) = L.          *)
(***************************************************************************)
C1_TfRoundTrip ==
    (pc = "decoded" /\ kind = "tf") => decoded = input_list

\* what does hold of the code: the round trip of lists of one-digit values
C1_TfRoundTripOneDigit ==
    (pc = "decoded" /\ kind = "tf" /\ \A i \in 1..Len(input_list) : input_list[i] < 128)
        => decoded = input_list

(***************************************************************************)
(* C2: for every non-empty ascending list L of document ids,               *)
(* VBEPostings.decode(VBEPostings.encode(L)) = L.                          *)
(***************************************************************************)
C2_VBEPostingsRoundTrip ==
    (pc = "decoded" /\ kind = "postings" /\ codec = "VBEPostings") => decoded = input_list

\* a decoded list with a multi-digit id and a multi-digit gap
C2_Witness ==
    /\ pc = "decoded" /\ kind = "postings" /\ codec = "VBEPostings"
    /\ Len(input_list) >= 2
    /\ input_list[1] >= 128
    /\ input_list[2] - input_list[1] >= 128
    /\ decoded = input_list

(***************************************************************************)
(* Sorting helpers (Python's sorted on integers).                          *)
(***************************************************************************)
MinOf(S) == CHOOSE x \in S : \A y \in S : x <= y

RECURSIVE sorted(_)
sorted(S) == IF S = {} THEN <<>> ELSE <<MinOf(S)>> \o sorted(S \ {MinOf(S)})

\* F applied to the value of x: x is computed first, as the earlier iterations of a
\* loop are run before the later ones
AndThen(x, F(_)) == CHOOSE y \in {F(v) : v \in {x}} : TRUE

Range(s) == {s[i] : i \in 1..Len(s)}

\* list(zip(a, b))
zip(a, b) ==
    [i \in 1..(IF Len(a) <= Len(b) THEN Len(a) ELSE Len(b)) |-> <<a[i], b[i]>>]

(***************************************************************************)
(* BSBIIndex.write_to_index                                                *)
(***************************************************************************)
\* the first loop with a count that starts at 0: get(doc_id, 0) + 0 on first sight
RECURSIVE Aggregate_CountFromZero(_, _)
Aggregate_CountFromZero(pairs, dict) ==
    IF pairs = <<>> THEN dict
    ELSE LET term_id == Head(pairs)[1]
             doc_id == Head(pairs)[2]
             old == IF term_id \in DOMAIN dict THEN dict[term_id] ELSE EmptyMap
             new == [d \in DOMAIN old \cup {doc_id} |->
                        IF d # doc_id THEN old[d]
                        ELSE IF doc_id \in DOMAIN old THEN old[doc_id] + 1 ELSE 0]
         IN  Aggregate_CountFromZero(Tail(pairs),
                                     [t \in DOMAIN dict \cup {term_id} |->
                                         IF t = term_id THEN new ELSE dict[t]])

\* the body of the first loop of write_to_index:
\* if term_id not in term_dict: term_dict[term_id] = {}
\* term_dict[term_id][doc_id] = term_dict[term_id].get(doc_id, 0) + 1
AggregatePair(pair, dict) ==
    LET term_id == pair[1]
        doc_id == pair[2]
        old == IF term_id \in DOMAIN dict THEN dict[term_id] ELSE EmptyMap
        get == IF doc_id \in DOMAIN old THEN old[doc_id] ELSE 0
    IN  (term_id :> ((doc_id :> get + 1) @@ old)) @@ dict

\* the first loop of write_to_index over the pairs in order: the loop over a list is
\* the loop over its first half followed by the loop over its second half
RECURSIVE Aggregate(_, _)
Aggregate(pairs, dict) ==
    IF pairs = <<>> THEN dict
    ELSE IF Len(pairs) = 1 THEN AggregatePair(pairs[1], dict)
    ELSE LET half == Len(pairs) \div 2
         IN  AndThen(Aggregate(SubSeq(pairs, 1, half), dict),
                     LAMBDA first : Aggregate(SubSeq(pairs, half + 1, Len(pairs)), first))

InvertAggregate ==
    /\ pc = "invert_start"
    /\ term_dict' = Aggregate(td_pairs, EmptyMap)
    /\ pc' = "invert_append"
    /\ UNCHANGED <<td_pairs, codecVars, mergeVars, appends, indexVars, retrVars>>

\* the loop body with the docIds in descending order
InvertTriple_Reversed(dict, term_id) ==
    LET asc == sorted(DOMAIN dict[term_id])
        postings_list == [i \in 1..Len(asc) |-> asc[Len(asc) + 1 - i]]
    IN  <<term_id, postings_list,
          [i \in 1..Len(postings_list) |-> dict[term_id][postings_list[i]]]>>

\* the body of the loop over sorted(term_dict.keys()): the arguments of index.append
InvertTriple(dict, term_id) ==
    LET postings_list == sorted(DOMAIN dict[term_id])
    IN  <<term_id, postings_list,
          [i \in 1..Len(postings_list) |-> dict[term_id][postings_list[i]]]>>

\* one iteration of the loop over sorted(term_dict.keys())
InvertAppend ==
    /\ pc = "invert_append"
    /\ Len(appends) < Cardinality(DOMAIN term_dict)
    /\ appends' = Append(appends,
                         InvertTriple(term_dict, sorted(DOMAIN term_dict)[Len(appends) + 1]))
    /\ UNCHANGED <<pc, invertVars, codecVars, mergeVars, indexVars, retrVars>>

\* write_to_index(td_pairs, index) as a whole: the append calls it makes
write_to_index(pairs) ==
    LET dict == Aggregate(pairs, EmptyMap)
        keys == sorted(DOMAIN dict)
    IN  [j \in 1..Len(keys) |-> InvertTriple(dict, keys[j])]

InvertReturn ==
    /\ pc = "invert_append"
    /\ Len(appends) = Cardinality(DOMAIN term_dict)
    /\ pc' = "invert_done"
    /\ UNCHANGED <<invertVars, codecVars, mergeVars, appends, indexVars, retrVars>>

InitInvert ==
    /\ pc = "invert_start"
    /\ td_pairs \in SeqsUpTo(TermIds \X DocIds, MaxPairs)
    /\ term_dict = EmptyMap
    /\ CodecIdle /\ MergeIdle /\ appends = <<>> /\ IndexIdle /\ RetrIdle

NextInvert == InvertAggregate \/ InvertAppend \/ InvertReturn

SpecInvert == InitInvert /\ [][NextInvert]_vars

(***************************************************************************)
(* util.merge_and_sort_posts_and_tfs: two-pointer merge of two lists of    *)
(* <<docId, tf>> sorted by docId; a docId met in both keeps one entry      *)
(* with the summed tf.                                                     *)
(***************************************************************************)
RECURSIVE merge_and_sort_posts_and_tfs(_, _)
merge_and_sort_posts_and_tfs(posts_tfs1, posts_tfs2) ==
    IF posts_tfs1 = <<>> THEN posts_tfs2
    ELSE IF posts_tfs2 = <<>> THEN posts_tfs1
    ELSE LET a == Head(posts_tfs1)
             b == Head(posts_tfs2)
         IN  IF a[1] < b[1]
             THEN <<a>> \o merge_and_sort_posts_and_tfs(Tail(posts_tfs1), posts_tfs2)
             ELSE IF b[1] < a[1]
             THEN <<b>> \o merge_and_sort_posts_and_tfs(posts_tfs1, Tail(posts_tfs2))
             ELSE <<<<a[1], a[2] + b[2]>>>>
                      \o merge_and_sort_posts_and_tfs(Tail(posts_tfs1), Tail(posts_tfs2))

(***************************************************************************)
(* BSBIIndex.merge_index                                                   *)
(***************************************************************************)
\* the readers heapq.merge can still pull a triple from
Live(idx, it) == {i \in 1..Len(idx) : it[i] < Len(idx[i])}

\* the triple at the head of reader i
HeadOf(idx, it, i) == idx[i][it[i] + 1]

\* heapq.merge(*indices, key=lambda x: x[0]): the reader whose head has the least
\* termId, the earliest reader among equals
HeapTop(idx, it) ==
    CHOOSE i \in Live(idx, it) :
        \A j \in Live(idx, it) :
            \/ HeadOf(idx, it, i)[1] < HeadOf(idx, it, j)[1]
            \/ (HeadOf(idx, it, i)[1] = HeadOf(idx, it, j)[1] /\ i <= j)

\* next(merged_iter): the triple pulled and the iterator after the pull
NextOf(idx, it) ==
    [triple |-> HeadOf(idx, it, HeapTop(idx, it)),
     it |-> [it EXCEPT ![HeapTop(idx, it)] = @ + 1]]

\* a loop body that replaces the accumulator on an equal termId instead of combining
MergeBody_NoCombine(c, p, tl, triple) ==
    [curr |-> triple[1], postings |-> triple[2], tf_list |-> triple[3],
     out |-> IF triple[1] = c THEN <<>> ELSE <<<<c, p, tl>>>>]

\* the body of the for loop over merged_iter: the accumulator after the triple, and
\* in out the arguments of the merged_index.append call it makes, if any
MergeBody(c, p, tl, triple) ==
    LET t == triple[1]
        postings_ == triple[2]
        tf_list_ == triple[3]
    IN  IF t = c
        THEN LET zip_p_tf == merge_and_sort_posts_and_tfs(zip(p, tl),
                                                          zip(postings_, tf_list_))
             IN  [curr |-> c,
                  postings |-> [i \in 1..Len(zip_p_tf) |-> zip_p_tf[i][1]],
                  tf_list |-> [i \in 1..Len(zip_p_tf) |-> zip_p_tf[i][2]],
                  out |-> <<>>]
        ELSE [curr |-> t, postings |-> postings_, tf_list |-> tf_list_,
              out |-> <<<<c, p, tl>>>>]

\* an end of merge_index that forgets the accumulator
MergeLast_NoAppend(c, p, tl) == <<>>

\* merged_index.append(curr, postings, tf_list) after the loop
MergeLast(c, p, tl) == <<<<c, p, tl>>>>

\* a first pull with a default, next(merged_iter, (-1, [], [])), that never raises
MergeFirst_DefaultOnEmpty ==
    /\ pc = "merge_start"
    /\ IF Live(indices, merged_iter) = {}
       THEN /\ curr' = -1 /\ postings' = <<>> /\ tf_list' = <<>>
            /\ pc' = "merge_loop"
            /\ UNCHANGED merged_iter
       ELSE LET n == NextOf(indices, merged_iter)
            IN  /\ curr' = n.triple[1]
                /\ postings' = n.triple[2]
                /\ tf_list' = n.triple[3]
                /\ merged_iter' = n.it
                /\ pc' = "merge_loop"
    /\ UNCHANGED <<indices, appends, codecVars, invertVars, indexVars, retrVars>>

\* curr, postings, tf_list = next(merged_iter); StopIteration when nothing is left
MergeFirst ==
    /\ pc = "merge_start"
    /\ IF Live(indices, merged_iter) = {}
       THEN /\ pc' = "merge_StopIteration"
            /\ UNCHANGED <<merged_iter, curr, postings, tf_list>>
       ELSE LET n == NextOf(indices, merged_iter)
            IN  /\ curr' = n.triple[1]
                /\ postings' = n.triple[2]
                /\ tf_list' = n.triple[3]
                /\ merged_iter' = n.it
                /\ pc' = "merge_loop"
    /\ UNCHANGED <<indices, appends, codecVars, invertVars, indexVars, retrVars>>

\* one iteration of the for loop over merged_iter
MergeNext ==
    /\ pc = "merge_loop"
    /\ Live(indices, merged_iter) # {}
    /\ LET n == NextOf(indices, merged_iter)
           r == MergeBody(curr, postings, tf_list, n.triple)
       IN  /\ curr' = r.curr
           /\ postings' = r.postings
           /\ tf_list' = r.tf_list
           /\ appends' = appends \o r.out
           /\ merged_iter' = n.it
    /\ UNCHANGED <<pc, indices, codecVars, invertVars, indexVars, retrVars>>

\* the loop is exhausted: the accumulator is appended and merge_index returns
MergeFlush ==
    /\ pc = "merge_loop"
    /\ Live(indices, merged_iter) = {}
    /\ appends' = appends \o MergeLast(curr, postings, tf_list)
    /\ pc' = "merge_done"
    /\ UNCHANGED <<mergeVars, codecVars, invertVars, indexVars, retrVars>>

\* the whole loop of merge_index, from an accumulator on: the append calls it makes
RECURSIVE MergeLoop(_, _, _, _, _)
MergeLoop(idx, it, c, p, tl) ==
    IF Live(idx, it) = {} THEN MergeLast(c, p, tl)
    ELSE LET n == NextOf(idx, it)
             r == MergeBody(c, p, tl, n.triple)
         IN  r.out \o MergeLoop(idx, n.it, r.curr, r.postings, r.tf_list)

\* merge_index(indices, merged_index) as a whole: the append calls, and whether
\* next(merged_iter) raised StopIteration
merge_index(idx) ==
    LET it0 == [i \in 1..Len(idx) |-> 0]
    IN  IF Live(idx, it0) = {}
        THEN [appends |-> <<>>, raised |-> "StopIteration"]
        ELSE LET n == NextOf(idx, it0)
             IN  [appends |-> MergeLoop(idx, n.it, n.triple[1], n.triple[2], n.triple[3]),
                  raised |-> "none"]

(***************************************************************************)
(* The readers handed to merge_index: reader i iterates, in ascending      *)
(* termId order, over the terms of its block; a document belongs to one    *)
(* block.                                                                  *)
(***************************************************************************)
\* the term frequency a merge input stores for term t in document d: 1 or 2
TfAt(t, d) == 1 + ((t + d) % 2)

\* termId -> (docId -> tf) over the terms Ts, every term with a non-empty set of
\* documents of own
ContentsOver(Ts, own) ==
    {[t \in Ts |-> [d \in docs[t] |-> TfAt(t, d)]] :
        docs \in [Ts -> (SUBSET own) \ {{}}]}

\* termId -> (docId -> tf), for any set of terms
BlockContents(own) == UNION {ContentsOver(Ts, own) : Ts \in SUBSET TermIds}

\* what iterating a reader over contents yields
TriplesOf(contents) ==
    LET ts == sorted(DOMAIN contents)
    IN  [j \in 1..Len(ts) |->
            LET ps == sorted(DOMAIN contents[ts[j]])
            IN  <<ts[j], ps, [i \in 1..Len(ps) |-> contents[ts[j]][ps[i]]]>>]

RECURSIVE ReaderLists(_, _)
ReaderLists(owner, n) ==
    IF n = 0 THEN {<<>>}
    ELSE {Append(l, TriplesOf(c)) :
             l \in ReaderLists(owner, n - 1),
             c \in BlockContents({d \in DocIds : owner[d] = n})}

InitMerge ==
    /\ pc = "merge_start"
    /\ \E n \in 0..MaxReaders :
          \/ n = 0 /\ indices = <<>>
          \/ \E owner \in [DocIds -> 1..n] : indices \in ReaderLists(owner, n)
    /\ merged_iter = [i \in 1..Len(indices) |-> 0]
    /\ curr = -1 /\ postings = <<>> /\ tf_list = <<>>
    /\ CodecIdle /\ InvertIdle /\ appends = <<>> /\ IndexIdle /\ RetrIdle

NextMerge == MergeFirst \/ MergeNext \/ MergeFlush

SpecMerge == InitMerge /\ [][NextMerge]_vars

(***************************************************************************)
(* C3: over readers with pairwise disjoint document ids, the postings      *)
(* appended for a term held by several readers are the ascending union of  *)
(* the readers' postings, each document keeping its tf; the postings and   *)
(* tf list of a term held by one reader are appended unchanged.            *)
(***************************************************************************)
Holders(t) == {i \in 1..Len(indices) : \E j \in 1..Len(indices[i]) : indices[i][j][1] = t}

TripleIn(i, t) == indices[i][CHOOSE j \in 1..Len(indices[i]) : indices[i][j][1] = t]

AllTermIds == {t \in TermIds : Holders(t) # {}}

DocsOf(t) == UNION {Range(TripleIn(i, t)[2]) : i \in Holders(t)}

TfOf(t, d) ==
    LET i == CHOOSE h \in Holders(t) : d \in Range(TripleIn(h, t)[2])
        k == CHOOSE x \in 1..Len(TripleIn(i, t)[2]) : TripleIn(i, t)[2][x] = d
    IN  TripleIn(i, t)[3][k]

C3_MergeContent ==
    pc = "merge_done" =>
        \A t \in AllTermIds :
            \E j \in 1..Len(appends) :
                /\ appends[j][1] = t
                /\ appends[j][2] = sorted(DocsOf(t))
                /\ appends[j][3] = [x \in 1..Len(appends[j][2]) |-> TfOf(t, appends[j][2][x])]
                /\ \A i \in Holders(t) :
                      Holders(t) = {i} => /\ appends[j][2] = TripleIn(i, t)[2]
                                          /\ appends[j][3] = TripleIn(i, t)[3]

\* a term held by two readers whose documents interleave, with different tfs
C3_Witness ==
    /\ pc = "merge_done"
    /\ \E t \in AllTermIds :
          /\ Holders(t) = {1, 2}
          /\ TripleIn(1, t)[2] = <<0, 2>> /\ TripleIn(2, t)[2] = <<1>>
          /\ TripleIn(1, t)[3] = <<2, 2>> /\ TripleIn(2, t)[3] = <<1>>
          /\ \E j \in 1..Len(appends) : appends[j] = <<t, <<0, 1, 2>>, <<2, 1, 2>>>>
    /\ \E t \in AllTermIds : Cardinality(Holders(t)) = 1

(***************************************************************************)
(* C4: given readers in ascending termId order and at least one term,      *)
(* merge_index appends with strictly increasing termIds, exactly once for  *)
(* each termId of any reader and for no other termId.                      *)
(***************************************************************************)
AppendedTermIds == [j \in 1..Len(appends) |-> appends[j][1]]

C4_MergeAppendOrder ==
    /\ pc \in {"merge_start", "merge_loop", "merge_done"} =>
          IsStrictlyAscending(AppendedTermIds)
    /\ pc = "merge_loop" => \A j \in 1..Len(appends) : appends[j][1] < curr
    /\ pc = "merge_done" => /\ Range(AppendedTermIds) = AllTermIds
                            /\ Len(appends) = Cardinality(AllTermIds)

\* two terms, one held by two readers with postings lists of unequal length
C4_Witness ==
    /\ pc = "merge_done"
    /\ Len(appends) = 2
    /\ \E t \in AllTermIds :
          /\ Holders(t) = {1, 2}
          /\ Len(TripleIn(1, t)[2]) # Len(TripleIn(2, t)[2])

(***************************************************************************)
(* C5: write_to_index appends once per distinct termId, in strictly        *)
(* ascending termId order, the strictly ascending duplicate-free docIds    *)
(* paired with the term and, co-indexed, the number of occurrences of      *)
(* each pair in the input; an empty input produces no append.              *)
(***************************************************************************)
Occurrences(pairs, p) == Cardinality({i \in 1..Len(pairs) : pairs[i] = p})

C5_BlockInversion ==
    pc = "invert_done" =>
        /\ Len(appends) = Cardinality({p[1] : p \in Range(td_pairs)})
        /\ IsStrictlyAscending([j \in 1..Len(appends) |-> appends[j][1]])
        /\ \A j \in 1..Len(appends) :
              LET t == appends[j][1]
                  ps == appends[j][2]
                  tfs == appends[j][3]
              IN  /\ IsStrictlyAscending(ps)
                  /\ Range(ps) = {p[2] : p \in {q \in Range(td_pairs) : q[1] = t}}
                  /\ Len(tfs) = Len(ps)
                  /\ \A i \in 1..Len(ps) : tfs[i] = Occurrences(td_pairs, <<t, ps[i]>>)
        /\ (td_pairs = <<>> => appends = <<>>)

\* two terms met in descending order, one with two documents met in descending
\* order, one pair repeated
C5_Witness ==
    /\ pc = "invert_done"
    /\ Len(td_pairs) = 4
    /\ td_pairs[1][1] > td_pairs[3][1]
    /\ td_pairs[1][1] = td_pairs[2][1] /\ td_pairs[1][2] > td_pairs[2][2]
    /\ td_pairs[4] = td_pairs[1]
    /\ Len(appends) = 2
    /\ appends[2][3] = <<1, 2>>

(***************************************************************************)
(* util.IdMap: the keys in the order of their ids (id_to_str); looking up  *)
(* a string returns its id and gives an unseen string the next id; looking *)
(* up an id returns its string.                                            *)
(***************************************************************************)
IndexIn(m, s) == CHOOSE i \in 1..Len(m) : m[i] = s

\* IdMap.__getitem__(str): the id, and the map after the lookup
IdMap_get_id(m, s) ==
    IF s \in Range(m)
    THEN [id |-> IndexIn(m, s) - 1, map |-> m]
    ELSE [id |-> Len(m), map |-> Append(m, s)]

\* IdMap.__getitem__(int)
IdMap_get_str(m, i) == m[i + 1]

(***************************************************************************)
(* index.InvertedIndexWriter / InvertedIndexReader: an index holds the     *)
(* appended termIds in order, per termId the encoded postings and tf list  *)
(* with the document frequency, and the document-length table.             *)
(***************************************************************************)
EmptyIndex == [terms |-> <<>>, postings_dict |-> EmptyMap, doc_length |-> EmptyMap]

\* InvertedIndexWriter.append(term, postings_list, tf_list)
WriterAppend(w, c, triple) ==
    LET term == triple[1]
        ps == triple[2]
        tfs == triple[3]
        pairs == zip(ps, tfs)
        added(d) == LET hits == SelectSeq(pairs, LAMBDA x : x[1] = d)
                    IN  IF hits = <<>> THEN 0 ELSE hits[1][2]
    IN  [terms |-> Append(w.terms, term),
         postings_dict |->
             [t \in DOMAIN w.postings_dict \cup {term} |->
                 IF t = term
                 THEN [postings |-> encode(c, ps), tf |-> encode_tf(c, tfs), df |-> Len(ps)]
                 ELSE w.postings_dict[t]],
         doc_length |->
             [d \in DOMAIN w.doc_length \cup Range(ps) |->
                 (IF d \in DOMAIN w.doc_length THEN w.doc_length[d] ELSE 0) + added(d)]]

\* the index a writer holds after the append calls in calls
RECURSIVE WriterStore(_, _)
WriterStore(c, calls) ==
    IF calls = <<>> THEN EmptyIndex
    ELSE WriterAppend(WriterStore(c, SubSeq(calls, 1, Len(calls) - 1)), c, calls[Len(calls)])

\* InvertedIndexReader.get_postings_list(term): empty lists for an unknown term
get_postings_list(index, c, term) ==
    IF term \in DOMAIN index.postings_dict
    THEN <<decode(c, index.postings_dict[term].postings),
           decode_tf(c, index.postings_dict[term].tf)>>
    ELSE <<<<>>, <<>>>>

\* iterating an InvertedIndexReader: the triples in the order of the appends
ReaderIter(index, c) ==
    [j \in 1..Len(index.terms) |->
        <<index.terms[j]>> \o get_postings_list(index, c, index.terms[j])]

(***************************************************************************)
(* BSBIIndex.parsing_block                                                 *)
(***************************************************************************)
Vocab == {"a", "b"}

\* the body of the inner loop: term_id = self.term_id_map[term]; td_pairs.append(...)
ParseToken(term, doc_id, tmap, pairs) ==
    LET r == IdMap_get_id(tmap, term)
    IN  [term_id_map |-> r.map, td_pairs |-> Append(pairs, <<r.id, doc_id>>)]

\* the inner loop over preprocessed_tokens in order: the loop over a list is the loop
\* over its first half followed by the loop over its second half
RECURSIVE ParseTokens(_, _, _, _)
ParseTokens(tokens, doc_id, tmap, pairs) ==
    IF tokens = <<>> THEN [term_id_map |-> tmap, td_pairs |-> pairs]
    ELSE IF Len(tokens) = 1 THEN ParseToken(tokens[1], doc_id, tmap, pairs)
    ELSE LET half == Len(tokens) \div 2
         IN  AndThen(ParseTokens(SubSeq(tokens, 1, half), doc_id, tmap, pairs),
                     LAMBDA first : ParseTokens(SubSeq(tokens, half + 1, Len(tokens)), doc_id,
                                                first.term_id_map, first.td_pairs))

\* the loop over the files of block b, from file f on; a path is <<b, f>>
RECURSIVE ParseFiles(_, _, _, _, _, _)
ParseFiles(docs, b, f, tmap, dmap, pairs) ==
    IF f > Len(docs)
    THEN [term_id_map |-> tmap, doc_id_map |-> dmap, td_pairs |-> pairs]
    ELSE LET d == IdMap_get_id(dmap, <<b, f>>)
             r == ParseTokens(docs[f], d.id, tmap, pairs)
         IN  ParseFiles(docs, b, f + 1, r.term_id_map, d.map, r.td_pairs)

parsing_block(coll, b, tmap, dmap) == ParseFiles(coll[b], b, 1, tmap, dmap, <<>>)

(***************************************************************************)
(* BSBIIndex.do_indexing, step by step.  Index ids: block b's intermediate *)
(* index is b, the merged index (index_name) is 0.                         *)
(***************************************************************************)
MainIndex == 0

Store(fs, id, index) == [i \in DOMAIN fs \cup {id} |-> IF i = id THEN index ELSE fs[i]]

\* the handles of InvertedIndexWriter(id) and InvertedIndexReader(id)
Writer(id) == <<"writer", id>>

Reader(id) == <<"reader", id>>

\* the block names as os.walk returns them
BlockOrder_AsListed(names) == names

\* sorted(next(os.walk(self.data_dir))[1])
BlockOrder(names) == sorted(Range(names))

\* td_pairs = self.parsing_block(block); self.intermediate_indices.append(index_id)
IndexParseBlock ==
    /\ pc = "index_loop"
    /\ Len(intermediate_indices) < Len(listing)
    /\ LET b == BlockOrder(listing)[Len(intermediate_indices) + 1]
           r == parsing_block(collection, b, term_id_map, doc_id_map)
       IN  /\ td_pairs' = r.td_pairs
           /\ term_id_map' = r.term_id_map
           /\ doc_id_map' = r.doc_id_map
           /\ intermediate_indices' = Append(intermediate_indices, b)
    /\ pc' = "block_parsed"
    /\ UNCHANGED <<term_dict, collection, listing, opened, files, saved, appends,
                   codecVars, mergeVars, retrVars>>

\* with InvertedIndexWriter(index_id, ...) as index: the files are created
IndexOpenWriter ==
    /\ pc = "block_parsed"
    /\ files' = Store(files, intermediate_indices[Len(intermediate_indices)], EmptyIndex)
    /\ opened' = opened \cup {Writer(intermediate_indices[Len(intermediate_indices)])}
    /\ appends' = <<>>
    /\ pc' = "invert_start"
    /\ UNCHANGED <<invertVars, collection, listing, term_id_map, doc_id_map,
                   intermediate_indices,
                   saved, codecVars, mergeVars, retrVars>>

\* td_pairs = None and the end of the with block: the writer stores the index
IndexCloseWriter ==
    /\ pc = "invert_done"
    /\ files' = Store(files, intermediate_indices[Len(intermediate_indices)],
                      WriterStore(codec, appends))
    /\ td_pairs' = <<>>
    /\ term_dict' = EmptyMap
    /\ opened' = opened \ {Writer(intermediate_indices[Len(intermediate_indices)])}
    /\ appends' = <<>>
    /\ pc' = "index_loop"
    /\ UNCHANGED <<collection, listing, term_id_map, doc_id_map, intermediate_indices,
                   saved, codecVars, mergeVars, retrVars>>

\* self.save()
IndexSave ==
    /\ pc = "index_loop"
    /\ Len(intermediate_indices) = Len(listing)
    /\ saved' = <<term_id_map, doc_id_map>>
    /\ pc' = "saved"
    /\ UNCHANGED <<collection, listing, opened, term_id_map, doc_id_map, intermediate_indices, files,
                   appends, codecVars, invertVars, mergeVars, retrVars>>

\* with InvertedIndexWriter(self.index_name, ...) as merged_index
IndexOpenMerged ==
    /\ pc = "saved"
    /\ files' = Store(files, MainIndex, EmptyIndex)
    /\ opened' = opened \cup {Writer(MainIndex)}
    /\ appends' = <<>>
    /\ pc' = "merged_open"
    /\ UNCHANGED <<collection, listing, term_id_map, doc_id_map, intermediate_indices, saved,
                   codecVars, invertVars, mergeVars, retrVars>>

\* indices = [stack.enter_context(InvertedIndexReader(index_id, ...)) for index_id in ...]
IndexOpenReaders ==
    /\ pc = "merged_open"
    /\ indices' = [i \in 1..Len(intermediate_indices) |->
                      ReaderIter(files[intermediate_indices[i]], codec)]
    /\ merged_iter' = [i \in 1..Len(intermediate_indices) |-> 0]
    /\ opened' = opened \cup {Reader(id) : id \in Range(intermediate_indices)}
    /\ pc' = "merge_start"
    /\ UNCHANGED <<curr, postings, tf_list, appends, collection, listing, term_id_map,
                   doc_id_map, intermediate_indices, files, saved,
                   codecVars, invertVars, retrVars>>

\* the ExitStack is left, by the return of merge_index or by its exception: the
\* readers are closed
IndexCloseReaders ==
    /\ pc \in {"merge_done", "merge_StopIteration"}
    /\ opened' = opened \ {Reader(id) : id \in Range(intermediate_indices)}
    /\ indices' = <<>> /\ merged_iter' = <<>>
    /\ pc' = IF pc = "merge_done" THEN "readers_closed" ELSE "readers_closed_StopIteration"
    /\ UNCHANGED <<curr, postings, tf_list, appends, collection, listing, term_id_map,
                   doc_id_map, intermediate_indices, files, saved,
                   codecVars, invertVars, retrVars>>

\* the end of the outer with block: the writer stores the merged index
IndexCloseMerged ==
    /\ pc = "readers_closed"
    /\ files' = Store(files, MainIndex, WriterStore(codec, appends))
    /\ opened' = opened \ {Writer(MainIndex)}
    /\ curr' = -1 /\ postings' = <<>> /\ tf_list' = <<>>
    /\ appends' = <<>>
    /\ pc' = "indexed"
    /\ UNCHANGED <<indices, merged_iter, collection, listing, term_id_map, doc_id_map,
                   intermediate_indices, saved, codecVars, invertVars, retrVars>>

\* next(merged_iter) raised StopIteration: the writer is closed on the way out and
\* do_indexing ends with the exception
IndexAbort ==
    /\ pc = "readers_closed_StopIteration"
    /\ opened' = opened \ {Writer(MainIndex)}
    /\ raised' = "StopIteration"
    /\ pc' = "index_failed"
    /\ UNCHANGED <<mergeVars, appends, collection, listing, term_id_map, doc_id_map,
                   intermediate_indices, files, saved, codecVars, invertVars,
                   query, top_k, scorer, bm25_params, result>>

(***************************************************************************)
(* The collections: up to MaxBlocks blocks holding up to MaxDocs files     *)
(* and up to MaxTokens terms of Vocab together.                            *)
(***************************************************************************)
\* the blocks of exactly nd files and nt terms
RECURSIVE BlocksOf(_, _)
BlocksOf(nd, nt) ==
    IF nd = 0 THEN (IF nt = 0 THEN {<<>>} ELSE {})
    ELSE UNION {{Append(blk, text) : blk \in BlocksOf(nd - 1, nt - n),
                                     text \in [1..n -> Vocab]} : n \in 0..nt}

\* the collections of exactly nb blocks, nd files and nt terms
RECURSIVE CollectionsOf(_, _, _)
CollectionsOf(nb, nd, nt) ==
    IF nb = 0 THEN (IF nd = 0 /\ nt = 0 THEN {<<>>} ELSE {})
    ELSE UNION {{Append(c, blk) : c \in CollectionsOf(nb - 1, nd - m, nt - n),
                                  blk \in BlocksOf(m, n)} : m \in 0..nd, n \in 0..nt}

Collections ==
    UNION {CollectionsOf(nb, nd, nt) : nb \in 0..MaxBlocks, nd \in 0..MaxDocs,
                                       nt \in 0..MaxTokens}

\* the orders in which os.walk can list n blocks, named 1..n
Listings(n) == {l \in [1..n -> 1..n] : \A i, j \in 1..n : l[i] = l[j] => i = j}

\* BSBIIndex(data_dir, output_dir, postings_encoding=VBEPostings)
Init ==
    /\ pc = "index_loop"
    /\ collection \in Collections
    /\ listing \in Listings(Len(collection))
    /\ opened = {}
    /\ term_id_map = <<>> /\ doc_id_map = <<>>
    /\ intermediate_indices = <<>>
    /\ files = EmptyMap /\ saved = <<>>
    /\ CodecIdle /\ InvertIdle /\ MergeIdle /\ appends = <<>> /\ RetrIdle

Next ==
    \/ IndexParseBlock \/ IndexOpenWriter
    \/ InvertAggregate \/ InvertAppend \/ InvertReturn
    \/ IndexCloseWriter \/ IndexSave \/ IndexOpenMerged \/ IndexOpenReaders
    \/ MergeFirst \/ MergeNext \/ MergeFlush
    \/ IndexCloseReaders \/ IndexCloseMerged \/ IndexAbort

Spec == Init /\ [][Next]_vars

(***************************************************************************)
(* C6: in every intermediate index and in the merged index written by      *)
(* do_indexing, each term's postings list is non-empty, its document ids   *)
(* are strictly ascending, the tf list has the same length, and every      *)
(* stored term frequency is >= 1.                                          *)
(***************************************************************************)
PostingInvariant(ps, tfs) ==
    /\ ps # <<>>
    /\ IsStrictlyAscending(ps)
    /\ Len(tfs) = Len(ps)
    /\ \A i \in 1..Len(tfs) : tfs[i] >= 1

C6_PostingInvariant ==
    /\ \A id \in DOMAIN files :
          \A j \in 1..Len(files[id].terms) :
              LET got == get_postings_list(files[id], codec, files[id].terms[j])
              IN  PostingInvariant(got[1], got[2])
    /\ \A j \in 1..Len(appends) : PostingInvariant(appends[j][2], appends[j][3])

\* a finished run whose merged index has a term with documents of two blocks and a
\* term frequency of 2
C6_Witness ==
    /\ pc = "indexed"
    /\ Len(collection) = 2
    /\ \E t \in DOMAIN files[MainIndex].postings_dict :
          LET got == get_postings_list(files[MainIndex], codec, t)
          IN  /\ Len(got[1]) = 2
              /\ t \in DOMAIN files[1].postings_dict
              /\ t \in DOMAIN files[2].postings_dict
              /\ \E i \in 1..2 : got[2][i] = 2

(***************************************************************************)
(* BSBIIndex.do_indexing as a whole: what an indexing run leaves in        *)
(* output_dir.                                                             *)
(***************************************************************************)
RECURSIVE IndexBlocks(_, _, _, _, _, _)
IndexBlocks(coll, c, b, tmap, dmap, fs) ==
    IF b > Len(coll) THEN [term_id_map |-> tmap, doc_id_map |-> dmap, files |-> fs]
    ELSE LET r == parsing_block(coll, b, tmap, dmap)
         IN  IndexBlocks(coll, c, b + 1, r.term_id_map, r.doc_id_map,
                         Store(fs, b, WriterStore(c, write_to_index(r.td_pairs))))

do_indexing(coll, c) ==
    LET blocks == IndexBlocks(coll, c, 1, <<>>, <<>>, EmptyMap)
        merged == merge_index([b \in 1..Len(coll) |-> ReaderIter(blocks.files[b], c)])
    IN  [files |-> Store(blocks.files, MainIndex, WriterStore(c, merged.appends)),
         saved |-> <<blocks.term_id_map, blocks.doc_id_map>>,
         raised |-> merged.raised]

\* the step-by-step run ends with what do_indexing as a whole computes
StepsAgreeWithWhole ==
    pc \in {"indexed", "index_failed"} =>
        /\ files = do_indexing(collection, codec).files
        /\ saved = do_indexing(collection, codec).saved
        /\ (pc = "index_failed") = (do_indexing(collection, codec).raised # "none")

(***************************************************************************)
(* Scores.  math.log10 is tabulated in units of 1/10000 (log10 of a        *)
(* product is the sum of the entries), so a score idf * wtD is an integer  *)
(* in units of 1/100000000.                                                *)
(***************************************************************************)
Unit == 10000

Log10Table == <<0, 3010, 4771, 6020, 6990, 7781, 8451, 9030>>

\* math.log10(n / d) for 1 <= d, n <= 8
log10_ratio(n, d) == Log10Table[n] - Log10Table[d]

(***************************************************************************)
(* BSBIIndex.retrieve_tfidf / retrieve_bm25.  scores is the dict as the    *)
(* list of its <<doc_id, score>> items in insertion order.                 *)
(***************************************************************************)
\* scores[doc_id] = scores.get(doc_id, 0) + score
Accumulate(scores, doc_id, score) ==
    IF \E i \in 1..Len(scores) : scores[i][1] = doc_id
    THEN [i \in 1..Len(scores) |->
             IF scores[i][1] = doc_id THEN <<doc_id, scores[i][2] + score>> ELSE scores[i]]
    ELSE Append(scores, <<doc_id, score>>)

\* w(t, D) of retrieve_tfidf
wtD_tfidf(tf) == IF tf > 0 THEN Unit + log10_ratio(tf, 1) ELSE 0

\* the loop over zip(postings_list, tf_list) of one query term
RECURSIVE ScorePostings(_, _, _, _, _)
ScorePostings(fn, pairs, idf, scores, err) ==
    IF pairs = <<>> \/ err # "none" THEN [scores |-> scores, raised |-> err]
    ELSE LET doc_id == Head(pairs)[1]
             tf == Head(pairs)[2]
         IN  IF fn = "bm25" /\ tf <= 0
             THEN [scores |-> scores, raised |-> "ValueError"]
             ELSE LET score == IF fn = "tfidf" THEN idf * wtD_tfidf(tf)
                                ELSE (Unit + log10_ratio(tf, 1)) * idf
                  IN  ScorePostings(fn, Tail(pairs), idf,
                                    Accumulate(scores, doc_id, score), err)

\* one query term scored without the test df > 0: N / df divides by zero
ScoreTerm_NoDfGuard(fn, index, c, N, term_id, scores) ==
    LET got == get_postings_list(index, c, term_id)
        df == Len(got[1])
    IN  IF df = 0 THEN [scores |-> scores, raised |-> "ZeroDivisionError"]
        ELSE ScorePostings(fn, zip(got[1], got[2]), log10_ratio(N, df), scores, "none")

\* the body of the loop over query_terms, after the term id lookup
ScoreTerm(fn, index, c, N, term_id, scores) ==
    LET got == get_postings_list(index, c, term_id)
        df == Len(got[1])
    IN  IF df > 0
        THEN ScorePostings(fn, zip(got[1], got[2]), log10_ratio(N, df), scores, "none")
        ELSE [scores |-> scores, raised |-> "none"]

\* the loop over query_terms: term_id = self.term_id_map[term], then the body
RECURSIVE ScoreQuery(_, _, _, _, _, _, _)
ScoreQuery(fn, index, c, N, terms, tmap, scores) ==
    IF terms = <<>> THEN [scores |-> scores, term_id_map |-> tmap, raised |-> "none"]
    ELSE LET look == IdMap_get_id(tmap, Head(terms))
             r == ScoreTerm(fn, index, c, N, look.id, scores)
         IN  IF r.raised # "none"
             THEN [scores |-> r.scores, term_id_map |-> look.map, raised |-> r.raised]
             ELSE ScoreQuery(fn, index, c, N, Tail(terms), look.map, r.scores)

\* sorted(items, key=score) in ascending order
RECURSIVE ranked_ascending(_)
ranked_ascending(items) ==
    IF items = <<>> THEN <<>>
    ELSE LET rest == ranked_ascending(Tail(items))
             x == Head(items)
             n == Cardinality({i \in 1..Len(rest) : rest[i][2] < x[2]})
         IN  SubSeq(rest, 1, n) \o <<x>> \o SubSeq(rest, n + 1, Len(rest))

\* sorted(scores.items(), key=lambda x: x[1], reverse=True): descending by score,
\* items of equal score in their original order
RECURSIVE ranked(_)
ranked(items) ==
    IF items = <<>> THEN <<>>
    ELSE LET rest == ranked(Tail(items))
             x == Head(items)
             n == Cardinality({i \in 1..Len(rest) : rest[i][2] > x[2]})
         IN  SubSeq(rest, 1, n) \o <<x>> \o SubSeq(rest, n + 1, Len(rest))

\* ranked_docs[:k]
slice_to(s, kk) ==
    IF kk >= 0 THEN SubSeq(s, 1, IF kk <= Len(s) THEN kk ELSE Len(s))
    ELSE SubSeq(s, 1, IF Len(s) + kk >= 0 THEN Len(s) + kk ELSE 0)

\* a retrieval that starts from a score of 0 for every document of the index
retrieve_DenseScores(fn, index, c, tmap, dmap, terms, kk) ==
    LET N == Cardinality(DOMAIN index.doc_length)
        ids == sorted(DOMAIN index.doc_length)
        r == ScoreQuery(fn, index, c, N, terms, tmap, [i \in 1..Len(ids) |-> <<ids[i], 0>>])
        top == slice_to(ranked(r.scores), kk)
    IN  [result |-> [i \in 1..Len(top) |-> <<top[i][2], IdMap_get_str(dmap, top[i][1])>>],
         term_id_map |-> r.term_id_map,
         raised |-> r.raised]

\* retrieve_tfidf (fn = "tfidf") and retrieve_bm25 (fn = "bm25"; k1 and b are not used)
retrieve(fn, index, c, tmap, dmap, terms, kk) ==
    LET N == Cardinality(DOMAIN index.doc_length)
        r == ScoreQuery(fn, index, c, N, terms, tmap, <<>>)
        ranked_docs == ranked(r.scores)
        top == slice_to(ranked_docs, kk)
    IN  IF r.raised # "none"
        THEN [result |-> <<>>, term_id_map |-> r.term_id_map, raised |-> r.raised]
        ELSE [result |-> [i \in 1..Len(top) |-> <<top[i][2], IdMap_get_str(dmap, top[i][1])>>],
              term_id_map |-> r.term_id_map,
              raised |-> "none"]

retrieve_tfidf(index, c, tmap, dmap, terms, kk) ==
    retrieve("tfidf", index, c, tmap, dmap, terms, kk)

\* a retrieve_bm25 whose term weight has the factor (k1 + 1) of the BM25 numerator
retrieve_bm25_K1Numerator(index, c, tmap, dmap, terms, kk, k1, b) ==
    LET r == retrieve("bm25", index, c, tmap, dmap, terms, kk)
    IN  [r EXCEPT !.result = [i \in 1..Len(r.result) |->
                                 <<(r.result[i][1] \div 10) * (k1 + 10), r.result[i][2]>>]]

\* k1 and b are parameters the body never reads
retrieve_bm25(index, c, tmap, dmap, terms, kk, k1, b) ==
    retrieve("bm25", index, c, tmap, dmap, terms, kk)

(***************************************************************************)
(* The retrieval service of main.py: a BSBIIndex over the output of an     *)
(* earlier indexing run, load(), then any sequence of retrieval calls.     *)
(* files holds the merged index, the one index retrieval opens.  The       *)
(* indexing run is one over a collection of a single block: the partition  *)
(* into blocks shows in the merged index only through the document paths.  *)
(***************************************************************************)
OOV == "x"

Queries == SeqsUpTo(Vocab \cup {OOV}, MaxQueryLen)

InitRetrieve ==
    /\ pc = "created"
    /\ \E coll \in {c \in Collections : Len(c) = 1} :
          LET run == do_indexing(coll, "VBEPostings")
          IN  /\ run.raised = "none"
              /\ files = [id \in {MainIndex} |-> run.files[MainIndex]]
              /\ saved = run.saved
    /\ collection = <<>> /\ listing = <<>> /\ opened = {}
    /\ intermediate_indices = <<>>
    /\ term_id_map = <<>> /\ doc_id_map = <<>>
    /\ CodecIdle /\ InvertIdle /\ MergeIdle /\ appends = <<>> /\ RetrIdle

\* BSBI_instance.load()
Load ==
    /\ pc = "created"
    /\ term_id_map' = saved[1]
    /\ doc_id_map' = saved[2]
    /\ pc' = "loaded"
    /\ UNCHANGED <<collection, listing, opened, intermediate_indices, files, saved, appends,
                   codecVars, invertVars, mergeVars, retrVars>>

\* the <<k1, b>> a caller passes: the defaults, and a pair without length normalization
Bm25Params == {DefaultParams, <<20, 0>>}

Retrieved(fn, terms, kk, p, r) ==
    /\ query' = terms /\ top_k' = kk /\ scorer' = fn /\ bm25_params' = p
    /\ result' = r.result
    /\ raised' = r.raised
    /\ term_id_map' = r.term_id_map
    /\ pc' = "retrieved"
    /\ UNCHANGED <<collection, listing, opened, doc_id_map, intermediate_indices, files, saved,
                   appends,
                   codecVars, invertVars, mergeVars>>

RetrieveTfidf ==
    /\ pc = "loaded"
    /\ \E terms \in Queries, kk \in (-1)..MaxK :
          Retrieved("tfidf", terms, kk, DefaultParams,
                    retrieve_tfidf(files[MainIndex], codec, term_id_map, doc_id_map, terms, kk))

\* retrieve_bm25(query, k=k), the call of main.py: k1 and b take their defaults
RetrieveBm25 ==
    /\ pc = "loaded"
    /\ \E terms \in Queries, kk \in (-1)..MaxK :
          Retrieved("bm25", terms, kk, DefaultParams,
                    retrieve_bm25(files[MainIndex], codec, term_id_map, doc_id_map, terms, kk,
                                  DefaultParams[1], DefaultParams[2]))

\* retrieve_bm25(query, k, k1, b) with k1 and b given
RetrieveBm25With ==
    /\ pc = "loaded"
    /\ \E terms \in Queries, kk \in (-1)..MaxK, p \in Bm25Params \ {DefaultParams} :
          Retrieved("bm25", terms, kk, p,
                    retrieve_bm25(files[MainIndex], codec, term_id_map, doc_id_map, terms, kk,
                                  p[1], p[2]))

\* the caller has taken the result: the service waits for the next request
Respond ==
    /\ pc = "retrieved"
    /\ query' = <<>> /\ top_k' = 0 /\ scorer' = "tfidf" /\ bm25_params' = DefaultParams
    /\ result' = <<>> /\ raised' = "none"
    /\ pc' = "loaded"
    /\ UNCHANGED <<indexVars, appends, codecVars, invertVars, mergeVars>>

NextRetrieve == Load \/ RetrieveTfidf \/ RetrieveBm25 \/ Respond

SpecRetrieve == InitRetrieve /\ [][NextRetrieve]_vars

\* the same service with callers that pass k1 and b to retrieve_bm25
NextBm25 == Load \/ RetrieveBm25With \/ Respond

SpecBm25 == InitRetrieve /\ [][NextBm25]_vars

(***************************************************************************)
(* Vocabulary of the index: the terms that were given an id while          *)
(* indexing, as saved in terms.dict.                                       *)
(***************************************************************************)
Indexed(term) == term \in Range(saved[1])

InVocabulary(terms) == SelectSeq(terms, Indexed)

(***************************************************************************)
(* C7: after load, no sequence of retrieve_tfidf and retrieve_bm25 calls,  *)
(* queries with never-indexed terms included, changes the term map or the  *)
(* document map.                                                           *)
(***************************************************************************)
C7_MapsUnchanged ==
    pc \in {"loaded", "retrieved"} =>
        /\ term_id_map = saved[1]
        /\ doc_id_map = saved[2]

\* what holds of the code: the document map is never changed, and the term map only
\* grows, by the never-indexed terms of the queries
C7_MapsOnlyGrow ==
    pc \in {"loaded", "retrieved"} =>
        /\ doc_id_map = saved[2]
        /\ Len(term_id_map) >= Len(saved[1])
        /\ SubSeq(term_id_map, 1, Len(saved[1])) = saved[1]

(***************************************************************************)
(* C8: a never-indexed term is neutral: no retrieval call raises, and the  *)
(* ranked list returned for a query equals the one returned for the query  *)
(* without its never-indexed terms.                                        *)
(***************************************************************************)
C8_OovNeutral ==
    pc = "retrieved" =>
        /\ raised = "none"
        /\ result = retrieve(scorer, files[MainIndex], codec, saved[1], saved[2],
                             InVocabulary(query), top_k).result

\* a call with a never-indexed term, made when an earlier call has already put that
\* term in the term map, that returns documents
C8_Witness ==
    /\ pc = "retrieved"
    /\ \E i \in 1..Len(query) : ~Indexed(query[i]) /\ query[i] \in Range(term_id_map)
    /\ term_id_map # saved[1]
    /\ InVocabulary(query) # <<>>
    /\ result # <<>>

(***************************************************************************)
(* C9: a query without terms, or with never-indexed terms only, returns    *)
(* the empty list and does not raise, whatever k.                          *)
(***************************************************************************)
C9_EmptyQuery ==
    (pc = "retrieved" /\ InVocabulary(query) = <<>>) =>
        /\ result = <<>>
        /\ raised = "none"

\* a bm25 call with two never-indexed terms over an index that has documents
C9_Witness ==
    /\ pc = "retrieved"
    /\ scorer = "bm25"
    /\ Len(query) = 2 /\ InVocabulary(query) = <<>>
    /\ top_k > 0
    /\ DOMAIN files[MainIndex].doc_length # {}
    /\ result = <<>>

(***************************************************************************)
(* C10: retrieve_tfidf(query, k), k >= 0, returns min(k, |D|) pairs, D the *)
(* documents in the postings of the indexed query terms: each for a        *)
(* distinct document of D with its accumulated score, in non-increasing    *)
(* score order, no omitted document of D scoring more than a returned      *)
(* one; documents of D with score 0 are returned like the others.          *)
(***************************************************************************)
TermIdOf(term) == IndexIn(saved[1], term) - 1

PostingsOf(term) == get_postings_list(files[MainIndex], codec, TermIdOf(term))

\* D: the documents in the postings of at least one indexed query term
Candidates(terms) ==
    UNION {Range(PostingsOf(terms[i])[1]) : i \in {j \in 1..Len(terms) : Indexed(terms[j])}}

\* idf * (1 + log10(tf)) of one query term for document d, 0 when d is not in its postings
TermScore(term, d) ==
    LET got == PostingsOf(term)
        N == Cardinality(DOMAIN files[MainIndex].doc_length)
    IN  IF ~Indexed(term) \/ d \notin Range(got[1]) THEN 0
        ELSE log10_ratio(N, Len(got[1]))
                 * (Unit + log10_ratio(got[2][CHOOSE i \in 1..Len(got[1]) : got[1][i] = d], 1))

RECURSIVE TotalScore(_, _)
TotalScore(terms, d) ==
    IF terms = <<>> THEN 0 ELSE TermScore(Head(terms), d) + TotalScore(Tail(terms), d)

PathOf(d) == saved[2][d + 1]

C10_RankedShape ==
    (pc = "retrieved" /\ scorer = "tfidf" /\ top_k >= 0 /\ raised = "none") =>
        LET D == Candidates(query)
            n == IF top_k <= Cardinality(D) THEN top_k ELSE Cardinality(D)
            returned == {d \in D : \E i \in 1..Len(result) : result[i][2] = PathOf(d)}
        IN  /\ Len(result) = n
            /\ Cardinality(returned) = n
            /\ \A i \in 1..Len(result) :
                  \E d \in D : result[i] = <<TotalScore(query, d), PathOf(d)>>
            /\ \A i \in 1..(Len(result) - 1) : result[i][1] >= result[i + 1][1]
            /\ \A d \in D \ returned :
                  \A i \in 1..Len(result) : TotalScore(query, d) <= result[i][1]

\* both documents of D returned, the later-indexed one first, the other with score 0
C10_Witness ==
    /\ pc = "retrieved" /\ scorer = "tfidf" /\ raised = "none"
    /\ Len(result) = 2
    /\ Cardinality(Candidates(query)) = 2
    /\ result[1][1] > 0
    /\ result[2][1] = 0
    /\ result[1][2] = PathOf(1)

(***************************************************************************)
(* C11: after do_indexing, the number of entries of the merged index's     *)
(* document-length table (the N of idf = log10(N / df)) equals the number  *)
(* of documents parsing_block gave a document id to.                       *)
(***************************************************************************)
DocCount(index) == Cardinality(DOMAIN index.doc_length)

C11_NIsDocCount ==
    pc = "indexed" => DocCount(files[MainIndex]) = Len(doc_id_map)

\* what the table does count: the documents with at least one term
C11_NCountsDocsWithTerms ==
    pc = "indexed" =>
        DocCount(files[MainIndex]) =
            Cardinality({p \in Range(doc_id_map) : collection[p[1]][p[2]] # <<>>})


(***************************************************************************)
(* C12: every retrieve_bm25(query, k, k1, b) call ends without an          *)
(* exception and returns the list retrieve_tfidf(query, k) returns from    *)
(* the same state, which is also the list retrieve_bm25 returns from that  *)
(* state for any other k1 and b.                                           *)
(***************************************************************************)
Bm25Call == pc = "loaded" /\ pc' = "retrieved" /\ scorer' = "bm25"

Bm25EqualsTfidf ==
    Bm25Call =>
        /\ raised' = "none"
        /\ result' = retrieve_tfidf(files[MainIndex], codec, term_id_map, doc_id_map,
                                    query', top_k').result
        /\ \A p \in Bm25Params :
              result' = retrieve_bm25(files[MainIndex], codec, term_id_map, doc_id_map,
                                      query', top_k', p[1], p[2]).result

RECURSIVE DigitCount(_)
DigitCount(n) == IF n < 128 THEN 1 ELSE 1 + DigitCount(n \div 128)

RECURSIVE TotalDigits(_)
TotalDigits(l) == IF l = <<>> THEN 0 ELSE DigitCount(Head(l)) + TotalDigits(Tail(l))

\* the integers the variable-byte encoder is given
EncodedIntegers == IF kind = "tf" THEN input_list ELSE np_diff(<<0>> \o input_list)

\* the positions of the last digit of each integer in the digit stream
RECURSIVE LastDigitAt(_, _)
LastDigitAt(l, from) ==
    IF l = <<>> THEN {}
    ELSE {from + DigitCount(Head(l))} \cup LastDigitAt(Tail(l), from + DigitCount(Head(l)))

C13_OneBytePerDigit ==
    (pc \in {"encoded", "decoded"} /\ codec = "VBEPostings") =>
        /\ Len(encoded) = TotalDigits(EncodedIntegers)
        /\ \A i \in 1..Len(encoded) :
              IF i \in LastDigitAt(EncodedIntegers, 0)
              THEN encoded[i] \in 128..255
              ELSE encoded[i] \in 0..127

\* what the encoder does return: one ItemSize-byte word per digit
C13_OneWordPerDigit ==
    (pc \in {"encoded", "decoded"} /\ codec = "VBEPostings") =>
        /\ Len(encoded) = ItemSize * TotalDigits(EncodedIntegers)
        /\ \A i \in 1..TotalDigits(EncodedIntegers) :
              /\ IF i \in LastDigitAt(EncodedIntegers, 0)
                 THEN encoded[ItemSize * (i - 1) + 1] \in 128..255
                 ELSE encoded[ItemSize * (i - 1) + 1] \in 0..127
              /\ \A j \in 2..ItemSize : encoded[ItemSize * (i - 1) + j] = 0


(***************************************************************************)
(* C14: merge_index called with no readers, or with readers that all yield *)
(* no triple, ends with an exception at its first pull: it never reaches   *)
(* its loop or its return, and makes no append call on the writer.         *)
(***************************************************************************)
AllEmpty == \A i \in 1..Len(indices) : indices[i] = <<>>

C14_AllEmptyMergeRejected ==
    (pc \in {"merge_start", "merge_loop", "merge_done", "merge_StopIteration"} /\ AllEmpty) =>
        /\ pc \in {"merge_start", "merge_StopIteration"}
        /\ appends = <<>>

\* merge_index over two readers without a triple has raised StopIteration
C14_Witness ==
    /\ pc = "merge_StopIteration"
    /\ Len(indices) = 2 /\ AllEmpty
    /\ appends = <<>>

\* merge_index over no reader has raised StopIteration
C14_WitnessNoReaders ==
    /\ pc = "merge_StopIteration"
    /\ indices = <<>>


(***************************************************************************)
(* C15: do_indexing takes the blocks in ascending name order, one          *)
(* intermediate index each; a block is parsed only when no writer is open, *)
(* so at most one writer is open during the block phase; the dictionaries  *)
(* are saved after every block's writer is closed and before the global    *)
(* writer is opened; the readers are opened while the global writer is     *)
(* open and are all closed before it is closed.                            *)
(***************************************************************************)
OpenWriters == {h \in opened : h[1] = "writer"}

OpenReaders == {h \in opened : h[1] = "reader"}

BlockNames == 1..Len(collection)

OrderedBlocks ==
    /\ IsStrictlyAscending(intermediate_indices)
    /\ Range(intermediate_indices) \subseteq BlockNames
    \* no block is skipped: the blocks taken so far are the least names
    /\ \A b \in Range(intermediate_indices), a \in BlockNames :
          a < b => a \in Range(intermediate_indices)
    /\ saved # <<>> => Range(intermediate_indices) = BlockNames
    /\ {id \in DOMAIN files : id # MainIndex} \subseteq Range(intermediate_indices)
    /\ saved = <<>> => Cardinality(OpenWriters) <= 1 /\ OpenReaders = {}

OrderedSteps ==
    \* a block is parsed
    /\ intermediate_indices' # intermediate_indices => opened = {}
    \* self.save()
    /\ saved' # saved =>
          /\ opened = {}
          /\ Range(intermediate_indices) = BlockNames
          /\ \A b \in BlockNames : b \in DOMAIN files
          /\ MainIndex \notin DOMAIN files
    \* the global writer is opened
    /\ Writer(MainIndex) \in opened' \ opened => saved # <<>> /\ opened = {}
    \* readers are opened
    /\ OpenReaders' # {} /\ OpenReaders = {} => Writer(MainIndex) \in opened
    \* the global writer is closed
    /\ Writer(MainIndex) \in opened \ opened' => OpenReaders = {}

C15_IndexingOrder == []OrderedBlocks /\ [][OrderedSteps]_vars

\* a finished run over two blocks that os.walk listed in descending name order
C15_Witness ==
    /\ pc = "indexed"
    /\ listing = <<2, 1>>
    /\ intermediate_indices = <<1, 2>>
    /\ opened = {}
    /\ DOMAIN files = {MainIndex, 1, 2}


(***************************************************************************)
(* An indexing run over a collection that may also be the one with a       *)
(* single document in which a term occurs 128 times, the least count whose *)
(* variable-byte code has two digits.                                      *)
(***************************************************************************)
LongDoc == [i \in 1..128 |-> "a"]

LongCollection == <<<<LongDoc>>>>

InitLongDoc ==
    /\ pc = "index_loop"
    /\ collection \in Collections \cup {LongCollection}
    /\ listing \in Listings(Len(collection))
    /\ opened = {}
    /\ term_id_map = <<>> /\ doc_id_map = <<>>
    /\ intermediate_indices = <<>>
    /\ files = EmptyMap /\ saved = <<>>
    /\ CodecIdle /\ InvertIdle /\ MergeIdle /\ appends = <<>> /\ RetrIdle

SpecLongDoc == InitLongDoc /\ [][Next]_vars

(***************************************************************************)
(* C16: after do_indexing, document d is in the global index's postings    *)
(* list of term t exactly if t occurs in d's normalized terms, and the tf  *)
(* stored with it is the number of occurrences; so the tf values of the    *)
(* global index add up to the number of <<termId, docId>> pairs parsing    *)
(* produced; and the documents of a later block have greater ids than      *)
(* those of an earlier block.  The global index is what merge_index hands  *)
(* to its writer, and what a reader then gets from it.                     *)
(***************************************************************************)
\* the normalized terms of the document with id d
TokensOf(d) == collection[doc_id_map[d + 1][1]][doc_id_map[d + 1][2]]

\* how often the term with id t occurs in the document with id d
OccurrencesIn(t, d) ==
    Cardinality({i \in 1..Len(TokensOf(d)) : TokensOf(d)[i] = term_id_map[t + 1]})

RECURSIVE SumSeq(_)
SumSeq(l) == IF l = <<>> THEN 0 ELSE Head(l) + SumSeq(Tail(l))

Conserved(triples) ==
    /\ \A j, k \in 1..Len(triples) : triples[j][1] = triples[k][1] => j = k
    /\ \A t \in 0..(Len(term_id_map) - 1), d \in 0..(Len(doc_id_map) - 1) :
          LET at == {j \in 1..Len(triples) : triples[j][1] = t}
              ps == IF at = {} THEN <<>> ELSE triples[CHOOSE j \in at : TRUE][2]
              tfs == IF at = {} THEN <<>> ELSE triples[CHOOSE j \in at : TRUE][3]
          IN  /\ (d \in Range(ps)) = (OccurrencesIn(t, d) >= 1)
              /\ \A i \in 1..Len(ps) : ps[i] = d => tfs[i] = OccurrencesIn(t, d)
    /\ SumSeq([j \in 1..Len(triples) |-> SumSeq(triples[j][3])])
           = SumSeq([d \in 1..Len(doc_id_map) |-> Len(TokensOf(d - 1))])

C16_TfConservation ==
    /\ pc = "readers_closed" => Conserved(appends)
    /\ pc = "indexed" => Conserved(ReaderIter(files[MainIndex], codec))
    /\ pc \in {"readers_closed", "indexed"} =>
          \A d, e \in 0..(Len(doc_id_map) - 1) :
              doc_id_map[d + 1][1] < doc_id_map[e + 1][1] => d < e

\* a finished run over two blocks with a term of both blocks and a tf of 2
C16_SmallRun ==
    /\ pc = "indexed"
    /\ doc_id_map = <<<<1, 1>>, <<2, 1>>>>
    /\ \E t \in 0..(Len(term_id_map) - 1) :
          /\ OccurrencesIn(t, 0) = 2
          /\ OccurrencesIn(t, 1) = 1

====
